---- MODULE Spec2Model ----
(***************************************************************************)
(* Model of the billion-row-table backend: the sparse row index            *)
(* (backend/src/indexer.ts), its on-disk codec, the row slicer and          *)
(* computeSliceParams (backend/src/slicer.ts), the WebSocket message        *)
(* handler of the server, and the frontend's columnIndexToLetters.          *)
(* Positions are 0-based as in the code; a TLA+ sequence s holds byte p of  *)
(* the code at s[p + 1].                                                     *)
(***************************************************************************)
EXTENDS Integers, Sequences, FiniteSets, TLC

VARIABLES
    file,               \* bytes of the data file at config.filePath
    granularity,        \* config.indexGranularity
    idxFile,            \* the file at config.indexPath: whether it exists, its bytes
    bpc,                \* position of buildIndex: "idle", "scan", "built"
    streamPos,          \* bytes the stream reader has delivered so far
    reads,              \* number of chunks reader.read() has returned
    totalRows,          \* buildIndex local
    currentOffset,      \* buildIndex local
    rowsSinceLastIndex, \* buildIndex local
    offsets,            \* buildIndex local
    saved,              \* TRUE once saveIndex has written the built index
    loaded,             \* outcome of the last loadIndex call
    index,              \* Slicer.index, or NoIndex before construction
    call,               \* the getSlice invocation in progress
    gpc,                \* position of getOrBuildIndex: "idle", "building", "returned", "failed"
    handlers,           \* the server's message handlers, one per message received
    sent,               \* what ws.send has been given, in order
    wsOpen,             \* whether the connection is open
    sliceParams,        \* the last computeSliceParams call: its input and result
    letters,            \* the last columnIndexToLetters call: its input and result
    page,               \* the client page: its WebSocket, closure variables and refs
    net                 \* the connection: messages in flight, what a close has cut off

\* What the startup and the Slicer do not touch
pageVars == <<page, net>>
frontVars == <<gpc, handlers, sent, wsOpen, sliceParams, letters, page, net>>

vars == <<file, granularity, idxFile, bpc, streamPos, reads, totalRows,
          currentOffset, rowsSinceLastIndex, offsets, saved, loaded, index, call,
          gpc, handlers, sent, wsOpen, sliceParams, letters, page, net>>

----------------------------------------------------------------------------
(* Bounds of the model *)

MaxFileLen == 4     \* longest enumerated data file, in bytes
MaxG == 2           \* largest granularity
MaxReads == 5       \* most chunks the stream splits a file into
MaxChunk == 2       \* longest chunk other than "all the rest"
MaxTail == 2        \* bytes following the long record of a mid or long file
MaxOver == 0        \* spread of the lengths of a long record
MidRecord == 255    \* a record after which offsets need a second byte

----------------------------------------------------------------------------
(* Bytes and files *)

NEWLINE == 10
SEMICOLON == 59
Alphabet == {NEWLINE, SEMICOLON, 97}      \* LT, FS and the letter "a"

READ_BUFFER_SIZE == 32 * 1024
TOTAL_COLS == 2
COL_LETTERS == <<"A", "B">>

NoFile == [exists |-> FALSE, bytes |-> <<>>]
FileOf(bytes) == [exists |-> TRUE, bytes |-> bytes]
NoIndex == "noindex"

Min(S) == CHOOSE x \in S : \A y \in S : x <= y
MinOf(a, b) == IF a <= b THEN a ELSE b
MaxOf(a, b) == IF a >= b THEN a ELSE b

SeqsUpTo(S, n) == UNION {[1..k -> S] : k \in 0..n}

Fill(n) == [i \in 1..n |-> 97]

SmallFiles == SeqsUpTo(Alphabet, MaxFileLen)
\* A record of a few hundred bytes, then a short tail
MidFiles == {Fill(MidRecord + d) \o t :
                 d \in 0..MaxOver, t \in SeqsUpTo(Alphabet, MaxTail)}
\* A record longer than the Slicer's read buffer, then a short tail
LongFiles == {Fill(READ_BUFFER_SIZE + 1 + d) \o t :
                 d \in 0..MaxOver, t \in SeqsUpTo(Alphabet, MaxTail)}
Files == SmallFiles \cup MidFiles
SliceFiles == SmallFiles \cup LongFiles

\* file.slice(offset, offset + length): clipped to the file, as Blob.slice does
Slice(data, from, to) ==
    LET a == MinOf(MaxOf(from, 0), Len(data))
        b == MinOf(MaxOf(to, a), Len(data))
    IN SubSeq(data, a + 1, b)

\* The scan `while (p < data.length && data[p] !== NEWLINE) p++` from `from`:
\* the position of the first NEWLINE at or after `from`, or data.length.
NextNewline(data, from) ==
    LET nls == {p \in from..(Len(data) - 1) : data[p + 1] = NEWLINE}
    IN IF nls = {} THEN MaxOf(from, Len(data)) ELSE Min(nls)

----------------------------------------------------------------------------
(* buildIndex *)

InitialOffsets == <<0>>

\* (a variant that forgets the bytes of the chunks before this one)
AnchorOffsetNoBase(curOff, i) == i + 1
\* Offset of the NEXT row (byte after newline)
AnchorOffset(curOff, i) == curOff + i + 1

AtBoundary(since, G) == since >= G

\* The for-loop over one chunk.  Only NEWLINE bytes change the locals, so the
\* loop is followed from one NEWLINE to the next.
RECURSIVE ScanFrom(_, _, _, _, _)
ScanFrom(chunk, i, st, curOff, G) ==
    LET nl == NextNewline(chunk, i)
    IN IF nl >= Len(chunk) THEN st
       ELSE LET since == st.rowsSinceLastIndex + 1
                next == IF AtBoundary(since, G)
                        THEN [totalRows |-> st.totalRows + 1,
                              rowsSinceLastIndex |-> 0,
                              offsets |-> Append(st.offsets, AnchorOffset(curOff, nl))]
                        ELSE [totalRows |-> st.totalRows + 1,
                              rowsSinceLastIndex |-> since,
                              offsets |-> st.offsets]
            IN ScanFrom(chunk, nl + 1, next, curOff, G)

ScanChunk(chunk, st, curOff, G) == ScanFrom(chunk, 0, st, curOff, G)

\* (a variant that never advances)
AdvanceNone(curOff, chunk) == curOff
Advance(curOff, chunk) == curOff + Len(chunk)

BuilderLocals == [totalRows |-> totalRows,
                  rowsSinceLastIndex |-> rowsSinceLastIndex,
                  offsets |-> offsets]

\* The lengths the next chunk of the stream may have
ChunkLens(remaining) ==
    IF reads + 1 >= MaxReads THEN {remaining} \ {0}
    ELSE {n \in 0..MaxChunk : n <= remaining} \cup {remaining}

BuildIndexCall ==
    /\ bpc = "idle"
    /\ bpc' = "scan"
    /\ offsets' = InitialOffsets
    /\ totalRows' = 0
    /\ currentOffset' = 0
    /\ rowsSinceLastIndex' = 0
    /\ streamPos' = 0
    /\ reads' = 0
    /\ UNCHANGED <<file, granularity, idxFile, saved, loaded, index, call>>
    /\ UNCHANGED frontVars

\* reader.read() resolves with a chunk (possibly empty)
ReaderRead ==
    /\ bpc = "scan"
    /\ \E n \in ChunkLens(Len(file) - streamPos) :
          LET chunk == Slice(file, streamPos, streamPos + n)
              st == ScanChunk(chunk, BuilderLocals, currentOffset, granularity)
          IN /\ totalRows' = st.totalRows
             /\ rowsSinceLastIndex' = st.rowsSinceLastIndex
             /\ offsets' = st.offsets
             /\ currentOffset' = Advance(currentOffset, chunk)
             /\ streamPos' = streamPos + n
             /\ reads' = reads + 1
    /\ UNCHANGED <<file, granularity, idxFile, bpc, saved, loaded, index, call>>
    /\ UNCHANGED frontVars

\* reader.read() resolves with done = true: the loop ends, buildIndex returns
ReaderDone ==
    /\ bpc = "scan"
    /\ streamPos = Len(file)
    /\ bpc' = "built"
    /\ UNCHANGED <<file, granularity, idxFile, streamPos, reads, totalRows,
                   currentOffset, rowsSinceLastIndex, offsets, saved, loaded,
                   index, call>>
    /\ UNCHANGED frontVars

\* The FileIndex buildIndex returns
BuiltIndex == [totalRows |-> totalRows, offsets |-> offsets, granularity |-> granularity]

----------------------------------------------------------------------------
(* saveIndex / loadIndex: the on-disk codec *)

MaxIdxLen == 33     \* longest index file present before startup, in bytes

\* setBigUint64(.., littleEndian = true), and the bytes of a BigUint64Array
\* element: 8 bytes, least significant first
RECURSIVE LEBytes(_, _)
LEBytes(n, k) == IF k = 0 THEN <<>> ELSE <<n % 256>> \o LEBytes(n \div 256, k - 1)

\* (a variant that keeps only the low byte)
U64LELowByte(n) == <<n % 256, 0, 0, 0, 0, 0, 0, 0>>
U64LE(n) == LEBytes(n, 8)

\* getBigUint64(.., true) and Number(..): exact below 2^53
RECURSIVE FromLE(_)
FromLE(bytes) == IF bytes = <<>> THEN 0 ELSE Head(bytes) + 256 * FromLE(Tail(bytes))

RECURSIVE OffsetBytes(_)
OffsetBytes(offs) ==
    IF offs = <<>> THEN <<>> ELSE U64LE(Head(offs)) \o OffsetBytes(Tail(offs))

\* The buffer saveIndex writes: [totalRows: u64][granularity: u64][offsets: u64[]]
EncodeIndex(ix) ==
    U64LE(ix.totalRows) \o U64LE(ix.granularity) \o OffsetBytes(ix.offsets)

\* new BigUint64Array(buffer.slice(16)) over a buffer of 16 + 8k bytes
DecodeOffsets(buffer) ==
    [k \in 1..((Len(buffer) - 16) \div 8) |-> FromLE(Slice(buffer, 8 + 8 * k, 16 + 8 * k))]

DecodeIndex(buffer) ==
    [totalRows |-> FromLE(Slice(buffer, 0, 8)),
     offsets |-> DecodeOffsets(buffer),
     granularity |-> FromLE(Slice(buffer, 8, 16))]

\* (LoadLenient: a variant that decodes whatever whole offsets it finds)
LoadLenient(f) ==
    IF ~f.exists THEN [kind |-> "null"]
    ELSE IF Len(f.bytes) < 16 THEN [kind |-> "error"]
    ELSE [kind |-> "index", index |-> DecodeIndex(f.bytes)]
\* What loadIndex does with the file at the path: null when there is none; a
\* RangeError from DataView.getBigUint64 when the buffer ends inside the header,
\* and from the BigUint64Array constructor when the rest is no multiple of 8 bytes
LoadResult(f) ==
    IF ~f.exists THEN [kind |-> "null"]
    ELSE IF Len(f.bytes) < 8 THEN [kind |-> "error"]
    ELSE IF Len(f.bytes) < 16 THEN [kind |-> "error"]
    ELSE IF (Len(f.bytes) - 16) % 8 # 0 THEN [kind |-> "error"]
    ELSE [kind |-> "index", index |-> DecodeIndex(f.bytes)]

\* saveIndex(index, config.indexPath) with the index buildIndex returned
SaveIndex ==
    /\ bpc = "built"
    /\ idxFile' = FileOf(EncodeIndex(BuiltIndex))
    /\ saved' = TRUE
    /\ UNCHANGED <<file, granularity, bpc, streamPos, reads, totalRows,
                   currentOffset, rowsSinceLastIndex, offsets, loaded, index, call>>
    /\ UNCHANGED frontVars

\* loadIndex(config.indexPath)
LoadIndex ==
    /\ bpc # "scan"
    /\ loaded' = LoadResult(idxFile)
    /\ UNCHANGED <<file, granularity, idxFile, bpc, streamPos, reads, totalRows,
                   currentOffset, rowsSinceLastIndex, offsets, saved, index, call>>
    /\ UNCHANGED frontVars

\* Index files a previous run may have left at config.indexPath: the encoding of
\* an index, whole, cut short, or with bytes appended
SomeIndexes ==
    {[totalRows |-> t, offsets |-> o, granularity |-> 1] :
        t \in 0..1, o \in {<<>>, <<0>>, <<0, 258>>}}
LeftIdxFiles ==
    {NoFile}
    \cup {FileOf(Slice(EncodeIndex(ix) \o <<0, 0, 0, 0>>, 0, n)) :
             ix \in SomeIndexes, n \in 0..MaxIdxLen}

----------------------------------------------------------------------------
(* getOrBuildIndex *)

MaxStartupFileLen == 2  \* longest short data file at startup, in bytes

\* Math.floor(file.size / 50) and Math.ceil(file.size / 5)
ExpectedMinRows(size) == size \div 50
ExpectedMaxRows(size) == -((-size) \div 5)

\* (a variant that checks the lower limit only)
ReasonableFromBelow(cached, size) == cached.totalRows >= ExpectedMinRows(size)
\* "check if totalRows is reasonable"
Reasonable(cached, size) ==
    /\ cached.totalRows >= ExpectedMinRows(size)
    /\ cached.totalRows <= ExpectedMaxRows(size)

\* getOrBuildIndex up to its return of the cached index, to the exception
\* loadIndex raises (nothing catches it), or to the first read of buildIndex
GetOrBuildIndexCall ==
    /\ gpc = "idle"
    /\ bpc = "idle"
    /\ LET cached == LoadResult(idxFile)
       IN /\ loaded' = cached
          /\ IF cached.kind = "error"
             THEN /\ gpc' = "failed"
                  /\ UNCHANGED <<index, bpc, offsets, totalRows, currentOffset,
                                 rowsSinceLastIndex, streamPos, reads>>
             ELSE IF cached.kind = "index" /\ Reasonable(cached.index, Len(file))
             THEN /\ gpc' = "returned"
                  /\ index' = cached.index
                  /\ UNCHANGED <<bpc, offsets, totalRows, currentOffset,
                                 rowsSinceLastIndex, streamPos, reads>>
             ELSE /\ gpc' = "building"
                  /\ bpc' = "scan"
                  /\ offsets' = InitialOffsets
                  /\ totalRows' = 0
                  /\ currentOffset' = 0
                  /\ rowsSinceLastIndex' = 0
                  /\ streamPos' = 0
                  /\ reads' = 0
                  /\ UNCHANGED index
    /\ UNCHANGED <<file, granularity, idxFile, saved, call,
                   handlers, sent, wsOpen, sliceParams, letters>>
    /\ UNCHANGED pageVars

\* buildIndex has returned: saveIndex, then return the fresh index
GetOrBuildIndexSaves ==
    /\ gpc = "building"
    /\ bpc = "built"
    /\ idxFile' = FileOf(EncodeIndex(BuiltIndex))
    /\ saved' = TRUE
    /\ index' = BuiltIndex
    /\ gpc' = "returned"
    /\ UNCHANGED <<file, granularity, bpc, streamPos, reads, totalRows,
                   currentOffset, rowsSinceLastIndex, offsets, loaded, call,
                   handlers, sent, wsOpen, sliceParams, letters>>
    /\ UNCHANGED pageVars

\* totalRows values a cached index may carry: around the limits the check
\* computes for the short files (0, 1) and for the files of MidFiles
CachedRowCounts == {0, 1, 2, (MidRecord \div 50) - 1, MidRecord \div 50,
                    (MidRecord \div 5) + 1, (MidRecord \div 5) + 2}
CachedIndexes ==
    {[totalRows |-> t, offsets |-> <<0>>, granularity |-> 1] : t \in CachedRowCounts}
\* Files found at config.indexPath at startup: none, a whole index, or an
\* index cut inside its header or inside an offset
StartupIdxFiles ==
    {NoFile}
    \cup {FileOf(EncodeIndex(ix)) : ix \in CachedIndexes}
    \cup {FileOf(Slice(EncodeIndex([totalRows |-> 1, offsets |-> <<0>>, granularity |-> 1]), 0, n)) :
             n \in {0, 8, 15, 20}}

----------------------------------------------------------------------------
(* Slicer *)

MaxRowArg == 3      \* largest startRow / rowCount argument of getSlice

RowArgs == -1..MaxRowArg
\* (startCol, colCount) arguments: both columns, each column alone, and windows
\* that start or end outside the table, are empty, or have a negative count
ColWindows == {<<0, TOTAL_COLS>>, <<0, 1>>, <<1, 1>>, <<-1, TOTAL_COLS + 1>>,
               <<TOTAL_COLS, 1>>, <<1, 0>>, <<0, -1>>}

\* Array.prototype.slice(start, end): negative arguments count from the end
RelIndex(i, len) == IF i < 0 THEN MaxOf(len + i, 0) ELSE MinOf(i, len)
JsSlice(arr, start, end) ==
    LET a == RelIndex(start, Len(arr))
        b == RelIndex(end, Len(arr))
    IN IF a < b THEN SubSeq(arr, a + 1, b) ELSE <<>>

\* TextDecoder.decode on the bytes of the model's alphabet: one ASCII byte is
\* one code unit; a lone byte above 0x7F becomes U+FFFD
Decode(bytes) ==
    SubSeq([i \in 1..Len(bytes) |-> IF bytes[i] < 128 THEN bytes[i] ELSE 65533], 1, Len(bytes))

\* line.indexOf(";"), or -1
IndexOfSemicolon(line) ==
    LET at == {p \in 0..(Len(line) - 1) : line[p + 1] = SEMICOLON}
    IN IF at = {} THEN -1 ELSE Min(at)

\* The cells of one line: split at the first semicolon
SplitCells(line) ==
    LET semicolonIdx == IndexOfSemicolon(line)
    IN IF semicolonIdx = -1 THEN <<line, <<>>>>
       ELSE <<SubSeq(line, 1, semicolonIdx), SubSeq(line, semicolonIdx + 2, Len(line))>>

RECURSIVE PadTo(_, _)
PadTo(cells, colCount) ==
    IF Len(cells) < colCount THEN PadTo(Append(cells, <<>>), colCount) ELSE cells

\* cells.slice(startCol, startCol + colCount), padded with "" up to colCount
SlicedCells(line, startCol, colCount) ==
    PadTo(JsSlice(SplitCells(line), startCol, startCol + colCount), colCount)

\* The "skip initial rows" loop: the position after skipRows NEWLINEs, or
\* data.length when the data ends first
RECURSIVE SkipFrom(_, _, _)
SkipFrom(data, pos, skipRows) ==
    IF skipRows <= 0 \/ pos >= Len(data) THEN pos
    ELSE LET nl == NextNewline(data, pos)
         IN IF nl >= Len(data) THEN Len(data) ELSE SkipFrom(data, nl + 1, skipRows - 1)

SkipRows(data, skipRows) == SkipFrom(data, 0, skipRows)

\* The "parse requested rows" loop, as the spans [pos, lineEnd) of the lines it
\* pushes: an empty line is passed over, any other line is pushed, up to the
\* end of the data whether or not a NEWLINE closes it
\* (a variant that takes no line for empty)
IsEmptyLineNever(pos, lineEnd) == FALSE
\* if (lineEnd === pos): "Empty line, skip"
IsEmptyLine(pos, lineEnd) == lineEnd = pos

RECURSIVE ParseFrom(_, _, _, _)
ParseFrom(data, pos, maxRows, spans) ==
    IF ~(pos < Len(data) /\ Len(spans) < maxRows) THEN spans
    ELSE LET lineEnd == NextNewline(data, pos)
         IN IF IsEmptyLine(pos, lineEnd) THEN ParseFrom(data, lineEnd + 1, maxRows, spans)
            ELSE ParseFrom(data, lineEnd + 1, maxRows,
                           Append(spans, [pos |-> pos, lineEnd |-> lineEnd]))

ParseSpans(data, skipRows, maxRows) ==
    ParseFrom(data, SkipRows(data, skipRows), maxRows, <<>>)

\* parseRows: the cells of each line it pushes
RowsOf(data, spans, startCol, colCount) ==
    [i \in 1..Len(spans) |->
        SlicedCells(Decode(Slice(data, spans[i].pos, spans[i].lineEnd)), startCol, colCount)]

ParseRows(data, skipRows, maxRows, startCol, colCount) ==
    RowsOf(data, ParseSpans(data, skipRows, maxRows), startCol, colCount)

\* The clamping at the head of getSlice
ClampStartRow(startRow, ix) == MaxOf(0, MinOf(startRow, ix.totalRows - 1))
ClampRowCount(rowCount, startRow, ix) == MinOf(rowCount, ix.totalRows - startRow)
ClampStartCol(startCol) == MaxOf(0, MinOf(startCol, TOTAL_COLS - 1))
ClampColCount(colCount, startCol) == MinOf(colCount, TOTAL_COLS - startCol)

FloorDiv(a, b) == a \div b

\* Slicer.fileSize, taken from file.size when the Slicer is constructed
fileSize == Len(file)

\* (a variant that does not stop at the end of the file)
BytesToReadUncapped(rowsToSkip, rowCount, indexOffset) ==
    MaxOf((rowsToSkip + rowCount) * 30, READ_BUFFER_SIZE)
BytesToRead(rowsToSkip, rowCount, indexOffset) ==
    MinOf(MaxOf((rowsToSkip + rowCount) * 30, READ_BUFFER_SIZE), fileSize - indexOffset)

\* (a variant that does not stop at the end of the file)
NewBytesToReadUncapped(bytesToRead, rowCount, got, indexOffset) ==
    bytesToRead + (rowCount - got) * 50
NewBytesToRead(bytesToRead, rowCount, got, indexOffset) ==
    MinOf(bytesToRead + (rowCount - got) * 50, fileSize - indexOffset)

\* readBytes(offset, length)
ReadBytes(offset, length) == Slice(file, offset, offset + length)

Response(c, rows) ==
    [type |-> "slice_response", startRow |-> c.startRow, rowCount |-> Len(rows),
     startCol |-> c.startCol, colCount |-> c.colCount,
     colLetters |-> JsSlice(COL_LETTERS, c.startCol, c.startCol + c.colCount),
     cellsByRow |-> rows]

NoResponse == [type |-> "none"]
IdleCall == [pc |-> "idle"]

\* The locals of a getSlice invocation at its first await, or at the return
\* of the empty response
GetSliceBegin(startRow0, rowCount0, startCol0, colCount0) ==
    LET startRow == ClampStartRow(startRow0, index)
        rowCount == ClampRowCount(rowCount0, startRow, index)
        startCol == ClampStartCol(startCol0)
        colCount == ClampColCount(colCount0, startCol)
        indexEntry == FloorDiv(startRow, index.granularity)
        indexOffset == index.offsets[indexEntry + 1]
        rowsToSkip == startRow - indexEntry * index.granularity
        c == [args |-> [startRow |-> startRow0, rowCount |-> rowCount0,
                        startCol |-> startCol0, colCount |-> colCount0],
              startRow |-> startRow, rowCount |-> rowCount,
              startCol |-> startCol, colCount |-> colCount]
    IN IF rowCount <= 0
       THEN c @@ [pc |-> "done", issued |-> <<>>, spans |-> <<>>,
                  indexOffset |-> 0, rowsToSkip |-> 0, bytesToRead |-> 0,
                  response |-> Response(c, <<>>)]
       ELSE c @@ [pc |-> "read1",
                  issued |-> <<[offset |-> indexOffset,
                                length |-> BytesToRead(rowsToSkip, rowCount, indexOffset)]>>,
                  spans |-> <<>>,
                  indexOffset |-> indexOffset, rowsToSkip |-> rowsToSkip,
                  bytesToRead |-> BytesToRead(rowsToSkip, rowCount, indexOffset),
                  response |-> NoResponse]

NeedsMore(c, got) == got < c.rowCount /\ c.startRow + got < index.totalRows

\* The first readBytes has resolved: parse, then return or read a larger chunk
GetSliceAfterFirst(c) ==
    LET chunk == ReadBytes(c.indexOffset, c.bytesToRead)
        spans == ParseSpans(chunk, c.rowsToSkip, c.rowCount)
        newBytesToRead == NewBytesToRead(c.bytesToRead, c.rowCount, Len(spans), c.indexOffset)
    IN IF NeedsMore(c, Len(spans)) /\ newBytesToRead > c.bytesToRead
       THEN [c EXCEPT !.pc = "read2",
                      !.issued = Append(@, [offset |-> c.indexOffset,
                                            length |-> newBytesToRead])]
       ELSE [c EXCEPT !.pc = "done", !.spans = spans,
                      !.response = Response(c, RowsOf(chunk, spans, c.startCol, c.colCount))]

\* The second readBytes has resolved: the response is the second parse
GetSliceAfterSecond(c) ==
    LET largerChunk == ReadBytes(c.issued[2].offset, c.issued[2].length)
        spans == ParseSpans(largerChunk, c.rowsToSkip, c.rowCount)
    IN [c EXCEPT !.pc = "done", !.spans = spans,
                 !.response = Response(c, RowsOf(largerChunk, spans, c.startCol, c.colCount))]

\* getSlice called on its own, outside the server
GetSliceCall ==
    /\ call.pc = "idle"
    /\ \E startRow0 \in RowArgs, rowCount0 \in RowArgs, cols \in ColWindows :
          call' = GetSliceBegin(startRow0, rowCount0, cols[1], cols[2])
    /\ UNCHANGED <<file, granularity, idxFile, bpc, streamPos, reads, totalRows,
                   currentOffset, rowsSinceLastIndex, offsets, saved, loaded, index>>
    /\ UNCHANGED frontVars

FirstReadResolves ==
    /\ call.pc = "read1"
    /\ call' = GetSliceAfterFirst(call)
    /\ UNCHANGED <<file, granularity, idxFile, bpc, streamPos, reads, totalRows,
                   currentOffset, rowsSinceLastIndex, offsets, saved, loaded, index>>
    /\ UNCHANGED frontVars

SecondReadResolves ==
    /\ call.pc = "read2"
    /\ call' = GetSliceAfterSecond(call)
    /\ UNCHANGED <<file, granularity, idxFile, bpc, streamPos, reads, totalRows,
                   currentOffset, rowsSinceLastIndex, offsets, saved, loaded, index>>
    /\ UNCHANGED frontVars

----------------------------------------------------------------------------
(* computeSliceParams *)

ROW_CAP == 1000
COL_CAP == 200

\* Math.floor(a / b) and Math.ceil(a / b) for b > 0
Floor(a, b) == a \div b
Ceil(a, b) == -((-a) \div b)

\* remainingRows = maxRows - startRow, remainingCols = maxCols - startCol
Remaining(max, start) == max - start

ComputeSliceParams(p) ==
    LET startRow == Floor(p.scrollTop, p.defaultRowHeight)
        visibleRows == Ceil(p.screenHeight, p.defaultRowHeight)
        rowCount0 == visibleRows + p.verticalBuffer * 2
        remainingRows == Remaining(p.maxRows, startRow)
        rowCount1 == IF rowCount0 > remainingRows THEN remainingRows ELSE rowCount0
        startCol == Floor(p.scrollLeft, p.defaultColumnWidth)
        visibleCols == Ceil(p.screenWidth, p.defaultColumnWidth)
        colCount0 == visibleCols + p.horizontalBuffer * 2
        remainingCols == Remaining(p.maxCols, startCol)
        colCount1 == IF colCount0 > remainingCols THEN remainingCols ELSE colCount0
        rowCount == MinOf(rowCount1, ROW_CAP)
        colCount == MinOf(colCount1, COL_CAP)
    IN [startRow |-> MaxOf(0, startRow), rowCount |-> MaxOf(0, rowCount),
        startCol |-> MaxOf(0, startCol), colCount |-> MaxOf(0, colCount)]

\* Viewports: scrolled above the top, at it, inside and past the data; screens
\* of no, one, some and more than ROW_CAP rows; tables of 0 to 2000 rows
RowViews ==
    [scrollTop : {-25, -1, 0, 23, 24, 48, 2400}, defaultRowHeight : {1, 24},
     screenHeight : {0, 24, 25, 480, 30000}, verticalBuffer : {0, 5},
     maxRows : {0, 1, 5, 2000}]
ColViews ==
    [scrollLeft : {-1, 0, 100, 300}, defaultColumnWidth : {100},
     screenWidth : {100, 1000, 30000}, horizontalBuffer : {0, 2},
     maxCols : {TOTAL_COLS, 300}]

ComputeSliceParamsCall ==
    /\ ~sliceParams.called
    /\ \E r \in RowViews, c \in ColViews :
          sliceParams' = [called |-> TRUE, in |-> r @@ c, out |-> ComputeSliceParams(r @@ c)]
    /\ UNCHANGED <<file, granularity, idxFile, bpc, streamPos, reads, totalRows,
                   currentOffset, rowsSinceLastIndex, offsets, saved, loaded, index,
                   call, gpc, handlers, sent, wsOpen, letters>>
    /\ UNCHANGED pageVars

----------------------------------------------------------------------------
(* columnIndexToLetters *)

MaxLetterIndex == 730   \* largest column index of the enumerated run from 0

\* A column index is a number below 2^48, held as <<hi, lo>> with the value
\* hi * 2^16 + lo and 0 <= lo < 2^16
LIMB == 256 * 256
Num(hi, lo) == <<hi, lo>>

\* index >>> 0: ToUint32, the value modulo 2^32
ToUint32(n) == Num(n[1] % LIMB, n[2])

\* n % 26, Math.floor(n / 26), n -= 1 on a number below 2^32
Mod26(n) == ((n[1] % 26) * LIMB + n[2]) % 26
Div26(n) == Num(n[1] \div 26, ((n[1] % 26) * LIMB + n[2]) \div 26)
Decrement(n) == IF n[2] > 0 THEN Num(n[1], n[2] - 1) ELSE Num(n[1] - 1, LIMB - 1)

Reverse(seq) == [i \in 1..Len(seq) |-> seq[Len(seq) + 1 - i]]

\* The while (true) loop: chars.push(String.fromCharCode(65 + rem)) ...
RECURSIVE LettersLoop(_, _)
LettersLoop(n, chars) ==
    LET pushed == Append(chars, 65 + Mod26(n))
        q == Div26(n)
    IN IF q = Num(0, 0) THEN pushed ELSE LettersLoop(Decrement(q), pushed)

\* The label as the sequence of its character codes
ColumnIndexToLetters(idx) ==
    LET chars == LettersLoop(ToUint32(idx), <<>>)
    IN SubSeq(Reverse(chars), 1, Len(chars))

\* Column indexes: 0 .. MaxLetterIndex, the last three-letter and the first
\* four-letter one, and the first indexes that need 33 bits
LetterIndexes ==
    {Num(0, lo) : lo \in 0..MaxLetterIndex}
    \cup {Num(0, 18277), Num(0, 18278)}
    \cup {Num(LIMB, 0), Num(LIMB, 26)}

ColumnIndexToLettersCall ==
    /\ ~letters.called
    /\ \E i \in LetterIndexes :
          letters' = [called |-> TRUE, in |-> i, out |-> ColumnIndexToLetters(i)]
    /\ UNCHANGED <<file, granularity, idxFile, bpc, streamPos, reads, totalRows,
                   currentOffset, rowsSinceLastIndex, offsets, saved, loaded, index,
                   call, gpc, handlers, sent, wsOpen, sliceParams>>
    /\ UNCHANGED pageVars

----------------------------------------------------------------------------
(* The WebSocket server: websocket.message *)

MaxMessages == 2        \* messages received on the connection
MaxServerFileLen == 2   \* longest short data file behind the server, in bytes

\* What arrives: text that JSON.parse rejects, the JSON text "null", and
\* objects with a type: metadata_request, an unknown type, and slice_request
\* with a viewport of one or two rows at the top or one row down
ServerViews ==
    [scrollTop : {0, 24}, defaultRowHeight : {24}, screenHeight : {24, 48},
     verticalBuffer : {0}, scrollLeft : {0}, defaultColumnWidth : {100},
     screenWidth : {200}, horizontalBuffer : {0}]
Messages ==
    {[type |-> "not_json"], [type |-> "json_null"],
     [type |-> "metadata_request"], [type |-> "bogus"]}
    \cup {[type |-> "slice_request", view |-> v] : v \in ServerViews}

MetadataResponse ==
    [type |-> "metadata_response", maxRows |-> index.totalRows, maxCols |-> TOTAL_COLS]
ErrorResponse(message) == [type |-> "error", message |-> message]

\* What the catch block sends for whatever JSON.parse or msg.type raised
CatchBlock(m) ==
    <<ErrorResponse(IF m.type = "not_json" THEN "SyntaxError" ELSE "TypeError")>>

\* (a variant whose default case sends nothing)
DefaultCaseSilent(m) == <<>>
\* The default case of the switch
DefaultCase(m) == <<ErrorResponse("Unknown message type")>>

\* computeSliceParams as the handler calls it
SliceParamsOf(m) ==
    ComputeSliceParams(m.view @@ [maxRows |-> index.totalRows, maxCols |-> TOTAL_COLS])

\* The handler of a message up to its first await or to its end: its
\* position, the locals of its getSlice invocation, and what it has sent
HandleMessage(m) ==
    IF m.type \in {"not_json", "json_null"}
    THEN [msg |-> m, pc |-> "done", call |-> IdleCall, out |-> CatchBlock(m)]
    ELSE IF m.type = "metadata_request"
    THEN [msg |-> m, pc |-> "done", call |-> IdleCall, out |-> <<MetadataResponse>>]
    ELSE IF m.type = "slice_request"
    THEN LET sp == SliceParamsOf(m)
             c == GetSliceBegin(sp.startRow, sp.rowCount, sp.startCol, sp.colCount)
         IN [msg |-> m, pc |-> c.pc, call |-> c,
             out |-> IF c.pc = "done" THEN <<c.response>> ELSE <<>>]
    ELSE [msg |-> m, pc |-> "done", call |-> IdleCall, out |-> DefaultCase(m)]

\* ws.send of each response of handler id
SendAll(id, out) == [k \in 1..Len(out) |-> [to |-> id, body |-> out[k]]]

\* websocket.message is called with a message
WsMessage ==
    /\ wsOpen
    /\ Len(handlers) < MaxMessages
    /\ \E m \in Messages :
          LET h == HandleMessage(m)
          IN /\ handlers' = Append(handlers, [msg |-> h.msg, pc |-> h.pc, call |-> h.call])
             /\ sent' = sent \o SendAll(Len(handlers) + 1, h.out)
    /\ UNCHANGED <<file, granularity, idxFile, bpc, streamPos, reads, totalRows,
                   currentOffset, rowsSinceLastIndex, offsets, saved, loaded, index,
                   call, gpc, wsOpen, sliceParams, letters>>
    /\ UNCHANGED pageVars

\* (a variant: the locals kept in one place, those of the newest invocation)
LocalsOfNewest(i) ==
    LET js == {j \in 1..Len(handlers) : handlers[j].msg.type = "slice_request"}
    IN handlers[CHOOSE j \in js : \A k \in js : k <= j].call
\* The locals of the getSlice invocation of handler i
LocalsOf(i) == handlers[i].call

\* Handler i resumes after an await of getSlice with the locals c
Resume(i, c) ==
    /\ handlers' = [handlers EXCEPT ![i].pc = c.pc, ![i].call = c]
    /\ sent' = IF c.pc = "done" THEN Append(sent, [to |-> i, body |-> c.response])
               ELSE sent

\* The first readBytes of handler i resolves
HandlerFirstRead ==
    /\ \E i \in 1..Len(handlers) :
          /\ handlers[i].pc = "read1"
          /\ Resume(i, GetSliceAfterFirst(LocalsOf(i)))
    /\ UNCHANGED <<file, granularity, idxFile, bpc, streamPos, reads, totalRows,
                   currentOffset, rowsSinceLastIndex, offsets, saved, loaded, index,
                   call, gpc, wsOpen, sliceParams, letters>>
    /\ UNCHANGED pageVars

\* The second readBytes of handler i resolves
HandlerSecondRead ==
    /\ \E i \in 1..Len(handlers) :
          /\ handlers[i].pc = "read2"
          /\ Resume(i, GetSliceAfterSecond(LocalsOf(i)))
    /\ UNCHANGED <<file, granularity, idxFile, bpc, streamPos, reads, totalRows,
                   currentOffset, rowsSinceLastIndex, offsets, saved, loaded, index,
                   call, gpc, wsOpen, sliceParams, letters>>
    /\ UNCHANGED pageVars

\* Data files behind the server: the short ones, and one whose first record
\* is longer than the read buffer
ServerFiles ==
    SeqsUpTo(Alphabet, MaxServerFileLen)
    \cup {Fill(READ_BUFFER_SIZE + 1) \o <<NEWLINE, 97, NEWLINE>>}

----------------------------------------------------------------------------
(* The client page: its WebSocket handlers and requestSlice *)

MaxUserEvents == 1      \* scrolling and resizing by the user
MaxDisconnects == 2     \* times the connection is lost

DEFAULT_COLUMN_WIDTH == 100
DEFAULT_ROW_HEIGHT == 24
H_BUFFER == 2
V_BUFFER == 5
FALLBACK_MAX_ROWS == 1000000000
FALLBACK_MAX_COLS == 1000
SCROLL_STEP_ROWS == 3

\* getViewportSize(): the scroller's rectangle less the headers
ViewportSize == [viewportWidth |-> 200, viewportHeight |-> 48]
\* Math.floor(quantizeLogical(logicalFromVisual())): multiples of stepHeight
ScrollTops == {0, SCROLL_STEP_ROWS * DEFAULT_ROW_HEIGHT}

ComputeWindow(inp) ==
    LET startRow == Floor(inp.scrollTop, inp.defaultRowHeight)
        visibleRows == Ceil(inp.screenHeight, inp.defaultRowHeight)
        startCol == Floor(inp.scrollLeft, inp.defaultColumnWidth)
        visibleCols == Ceil(inp.screenWidth, inp.defaultColumnWidth)
    IN [startRow |-> startRow,
        rowCount |-> MinOf(visibleRows + inp.verticalBuffer * 2,
                           MaxOf(0, inp.maxRows - startRow)),
        startCol |-> startCol,
        colCount |-> MinOf(visibleCols + inp.horizontalBuffer * 2,
                           MaxOf(0, inp.maxCols - startCol))]

\* The viewport fields requestSlice computes and sends
ViewOf(pg) ==
    [screenWidth |-> ViewportSize.viewportWidth,
     screenHeight |-> ViewportSize.viewportHeight,
     horizontalBuffer |-> H_BUFFER, verticalBuffer |-> V_BUFFER,
     defaultColumnWidth |-> DEFAULT_COLUMN_WIDTH,
     defaultRowHeight |-> DEFAULT_ROW_HEIGHT,
     scrollLeft |-> 0, scrollTop |-> pg.scrollTop]

\* `${slice.startRow}:${slice.rowCount}:${slice.startCol}:${slice.colCount}`
KeyOf(pg) ==
    LET slice == ComputeWindow(ViewOf(pg) @@ [maxRows |-> pg.maxRowsRef,
                                              maxCols |-> pg.maxColsRef])
    IN <<slice.startRow, slice.rowCount, slice.startCol, slice.colCount>>

\* requestSlice(): the page after it, and what it has given to ws.send
RequestSlice(pg) ==
    IF ~pg.socketOpen THEN [page |-> pg, out |-> <<>>]
    ELSE IF KeyOf(pg) = pg.lastSentKey THEN [page |-> pg, out |-> <<>>]
    ELSE IF pg.ws # "open"
         THEN [page |-> [pg EXCEPT !.lastSentKey = KeyOf(pg)], out |-> <<>>]
         ELSE [page |-> [pg EXCEPT !.lastSentKey = KeyOf(pg)],
               out |-> <<[type |-> "slice_request", view |-> ViewOf(pg)]>>]

\* The page when the effect has run up to connect()
PageStart ==
    [ws |-> "none", socketOpen |-> FALSE, lastSentKey |-> <<>>,
     reconnectTimer |-> FALSE, rafPending |-> FALSE,
     maxRows |-> FALLBACK_MAX_ROWS, maxCols |-> FALLBACK_MAX_COLS,
     maxRowsRef |-> FALLBACK_MAX_ROWS, maxColsRef |-> FALLBACK_MAX_COLS,
     latestSlice |-> NoResponse, scrollTop |-> 0, events |-> 0]

\* c2s: what the client has sent and the server has not yet received;
\* delivered: how many entries of sent have reached the client or a closed
\* socket; dead: the handlers whose connection has been closed
NetStart == [c2s |-> <<>>, delivered |-> 0, dead |-> 0, disconnects |-> 0]

\* connect(): at the end of the effect, or when the reconnect timer fires
PageConnect ==
    /\ page.ws = "none" \/ page.reconnectTimer
    /\ page' = [page EXCEPT !.ws = "connecting", !.reconnectTimer = FALSE]
    /\ UNCHANGED <<file, granularity, idxFile, bpc, streamPos, reads, totalRows,
                   currentOffset, rowsSinceLastIndex, offsets, saved, loaded, index,
                   call, gpc, handlers, sent, wsOpen, sliceParams, letters, net>>

\* ws.onopen
WsOnOpen ==
    /\ page.ws = "connecting"
    /\ page' = [page EXCEPT !.ws = "open", !.socketOpen = TRUE]
    /\ net' = [net EXCEPT !.c2s = Append(@, [type |-> "metadata_request"])]
    /\ wsOpen' = TRUE
    /\ UNCHANGED <<file, granularity, idxFile, bpc, streamPos, reads, totalRows,
                   currentOffset, rowsSinceLastIndex, offsets, saved, loaded, index,
                   call, gpc, handlers, sent, sliceParams, letters>>

\* websocket.message is called with the next message of the client
ServerReceives ==
    /\ wsOpen
    /\ net.c2s # <<>>
    /\ LET h == HandleMessage(Head(net.c2s))
       IN /\ handlers' = Append(handlers, [msg |-> h.msg, pc |-> h.pc, call |-> h.call])
          /\ sent' = sent \o SendAll(Len(handlers) + 1, h.out)
    /\ net' = [net EXCEPT !.c2s = Tail(@)]
    /\ UNCHANGED <<file, granularity, idxFile, bpc, streamPos, reads, totalRows,
                   currentOffset, rowsSinceLastIndex, offsets, saved, loaded, index,
                   call, gpc, wsOpen, sliceParams, letters, page>>

\* ws.onmessage
OnMessage(pg, msg) ==
    IF msg.type = "metadata_response"
    THEN RequestSlice([pg EXCEPT !.maxRows = msg.maxRows, !.maxCols = msg.maxCols])
    ELSE IF msg.type = "slice_response"
    THEN [page |-> [pg EXCEPT !.latestSlice = msg], out |-> <<>>]
    ELSE [page |-> pg, out |-> <<>>]

\* The next thing the server has sent reaches the client and ws.onmessage
\* runs; what was sent on a closed connection reaches nobody
WsOnMessage ==
    /\ net.delivered < Len(sent)
    /\ LET e == sent[net.delivered + 1]
       IN IF e.to <= net.dead
          THEN /\ net' = [net EXCEPT !.delivered = @ + 1]
               /\ UNCHANGED page
          ELSE LET r == OnMessage(page, e.body)
               IN /\ page' = r.page
                  /\ net' = [net EXCEPT !.delivered = @ + 1, !.c2s = @ \o r.out]
    /\ UNCHANGED <<file, granularity, idxFile, bpc, streamPos, reads, totalRows,
                   currentOffset, rowsSinceLastIndex, offsets, saved, loaded, index,
                   call, gpc, handlers, sent, wsOpen, sliceParams, letters>>

\* The effects that copy maxRows and maxCols into their refs after a render
RenderCommit ==
    /\ page.maxRowsRef # page.maxRows \/ page.maxColsRef # page.maxCols
    /\ page' = [page EXCEPT !.maxRowsRef = page.maxRows, !.maxColsRef = page.maxCols]
    /\ UNCHANGED <<file, granularity, idxFile, bpc, streamPos, reads, totalRows,
                   currentOffset, rowsSinceLastIndex, offsets, saved, loaded, index,
                   call, gpc, handlers, sent, wsOpen, sliceParams, letters, net>>

\* The window is resized to the size it has: onResize
OnResize ==
    /\ page.events < MaxUserEvents
    /\ LET r == RequestSlice([page EXCEPT !.events = @ + 1])
       IN /\ page' = r.page
          /\ net' = [net EXCEPT !.c2s = @ \o r.out]
    /\ UNCHANGED <<file, granularity, idxFile, bpc, streamPos, reads, totalRows,
                   currentOffset, rowsSinceLastIndex, offsets, saved, loaded, index,
                   call, gpc, handlers, sent, wsOpen, sliceParams, letters>>

\* The user scrolls: onScroll
OnScroll ==
    /\ page.events < MaxUserEvents
    /\ \E t \in ScrollTops \ {page.scrollTop} :
          page' = [page EXCEPT !.scrollTop = t, !.events = @ + 1, !.rafPending = TRUE]
    /\ UNCHANGED <<file, granularity, idxFile, bpc, streamPos, reads, totalRows,
                   currentOffset, rowsSinceLastIndex, offsets, saved, loaded, index,
                   call, gpc, handlers, sent, wsOpen, sliceParams, letters, net>>

\* The requestAnimationFrame callback of onScroll
AnimationFrame ==
    /\ page.rafPending
    /\ LET r == RequestSlice([page EXCEPT !.rafPending = FALSE])
       IN /\ page' = r.page
          /\ net' = [net EXCEPT !.c2s = @ \o r.out]
    /\ UNCHANGED <<file, granularity, idxFile, bpc, streamPos, reads, totalRows,
                   currentOffset, rowsSinceLastIndex, offsets, saved, loaded, index,
                   call, gpc, handlers, sent, wsOpen, sliceParams, letters>>

\* The connection is lost: readyState leaves OPEN, what is in flight is gone
SocketCloses ==
    /\ page.ws = "open"
    /\ net.disconnects < MaxDisconnects
    /\ page' = [page EXCEPT !.ws = "closed"]
    /\ net' = [c2s |-> <<>>, delivered |-> Len(sent), dead |-> Len(handlers),
               disconnects |-> net.disconnects + 1]
    /\ wsOpen' = FALSE
    /\ UNCHANGED <<file, granularity, idxFile, bpc, streamPos, reads, totalRows,
                   currentOffset, rowsSinceLastIndex, offsets, saved, loaded, index,
                   call, gpc, handlers, sent, sliceParams, letters>>

\* ws.onclose
WsOnClose ==
    /\ page.ws = "closed"
    /\ page.socketOpen
    /\ page' = [page EXCEPT !.socketOpen = FALSE, !.reconnectTimer = TRUE]
    /\ UNCHANGED <<file, granularity, idxFile, bpc, streamPos, reads, totalRows,
                   currentOffset, rowsSinceLastIndex, offsets, saved, loaded, index,
                   call, gpc, handlers, sent, wsOpen, sliceParams, letters, net>>

\* Data files behind the server the page talks to: six short records, or a
\* record longer than the read buffer
PageFiles ==
    {<<97, NEWLINE, 97, NEWLINE, 97, NEWLINE, 97, NEWLINE, 97, NEWLINE, 97, NEWLINE>>,
     Fill(READ_BUFFER_SIZE + 1) \o <<NEWLINE, 97, NEWLINE>>}

----------------------------------------------------------------------------
\* Before startup: getOrBuildIndex not called, no connection traffic
NoParams == [called |-> FALSE]
NoLetters == [called |-> FALSE]

\* No message received yet, no pure helper called
ConnIdle ==
    /\ handlers = <<>>
    /\ sent = <<>>
    /\ wsOpen = TRUE
    /\ sliceParams = NoParams
    /\ letters = NoLetters
    /\ page = PageStart
    /\ net = NetStart

FrontIdle == gpc = "idle" /\ ConnIdle

Init ==
    /\ file \in Files
    /\ granularity \in 1..MaxG
    /\ idxFile = NoFile
    /\ bpc = "idle"
    /\ streamPos = 0
    /\ reads = 0
    /\ totalRows = 0
    /\ currentOffset = 0
    /\ rowsSinceLastIndex = 0
    /\ offsets = <<>>
    /\ saved = FALSE
    /\ loaded = [kind |-> "notcalled"]
    /\ index = NoIndex
    /\ call = IdleCall
    /\ FrontIdle

Next ==
    \/ BuildIndexCall
    \/ ReaderRead
    \/ ReaderDone
    \/ SaveIndex
    \/ LoadIndex

Spec == Init /\ [][Next]_vars

\* Startup over whatever index file a previous run left behind
MaxCodecFileLen == 1

InitCodec ==
    /\ file \in SeqsUpTo(Alphabet, MaxCodecFileLen)
    /\ granularity \in 1..MaxG
    /\ idxFile \in LeftIdxFiles
    /\ bpc = "idle"
    /\ streamPos = 0
    /\ reads = 0
    /\ totalRows = 0
    /\ currentOffset = 0
    /\ rowsSinceLastIndex = 0
    /\ offsets = <<>>
    /\ saved = FALSE
    /\ loaded = [kind |-> "notcalled"]
    /\ index = NoIndex
    /\ call = IdleCall
    /\ FrontIdle

SpecCodec == InitCodec /\ [][Next]_vars

\* Startup of the server: getOrBuildIndex over whatever is at config.indexPath
InitStartup ==
    /\ file \in SeqsUpTo(Alphabet, MaxStartupFileLen) \cup MidFiles
    /\ granularity \in 1..MaxG
    /\ idxFile \in StartupIdxFiles
    /\ bpc = "idle"
    /\ streamPos = 0
    /\ reads = 0
    /\ totalRows = 0
    /\ currentOffset = 0
    /\ rowsSinceLastIndex = 0
    /\ offsets = <<>>
    /\ saved = FALSE
    /\ loaded = [kind |-> "notcalled"]
    /\ index = NoIndex
    /\ call = IdleCall
    /\ FrontIdle

NextStartup ==
    \/ GetOrBuildIndexCall
    \/ ReaderRead
    \/ ReaderDone
    \/ GetOrBuildIndexSaves

SpecStartup == InitStartup /\ [][NextStartup]_vars

\* The pure helpers, called on viewports and column indexes
InitPure ==
    /\ file = <<>>
    /\ granularity = 1
    /\ idxFile = NoFile
    /\ bpc = "idle"
    /\ streamPos = 0
    /\ reads = 0
    /\ totalRows = 0
    /\ currentOffset = 0
    /\ rowsSinceLastIndex = 0
    /\ offsets = <<>>
    /\ saved = FALSE
    /\ loaded = [kind |-> "notcalled"]
    /\ index = NoIndex
    /\ call = IdleCall
    /\ FrontIdle

SpecParams == InitPure /\ [][ComputeSliceParamsCall]_vars

SpecLetters == InitPure /\ [][ColumnIndexToLettersCall]_vars

\* Serving slices: the index has been built and the Slicer constructed with it
BuildWhole(f, G) ==
    ScanChunk(f, [totalRows |-> 0, rowsSinceLastIndex |-> 0, offsets |-> InitialOffsets], 0, G)

InitSlice ==
    /\ file \in SliceFiles
    /\ granularity \in 1..MaxG
    /\ idxFile = NoFile
    /\ bpc = "built"
    /\ streamPos = Len(file)
    /\ reads = 1
    /\ totalRows = BuildWhole(file, granularity).totalRows
    /\ currentOffset = Len(file)
    /\ rowsSinceLastIndex = BuildWhole(file, granularity).rowsSinceLastIndex
    /\ offsets = BuildWhole(file, granularity).offsets
    /\ saved = FALSE
    /\ loaded = [kind |-> "notcalled"]
    /\ index = BuiltIndex
    /\ call = IdleCall
    /\ gpc = "returned"
    /\ ConnIdle

\* The server after startup, a client connected
InitServer ==
    /\ file \in ServerFiles
    /\ granularity \in 1..MaxG
    /\ idxFile = NoFile
    /\ bpc = "built"
    /\ streamPos = Len(file)
    /\ reads = 1
    /\ totalRows = BuildWhole(file, granularity).totalRows
    /\ currentOffset = Len(file)
    /\ rowsSinceLastIndex = BuildWhole(file, granularity).rowsSinceLastIndex
    /\ offsets = BuildWhole(file, granularity).offsets
    /\ saved = FALSE
    /\ loaded = [kind |-> "notcalled"]
    /\ index = BuiltIndex
    /\ call = IdleCall
    /\ gpc = "returned"
    /\ ConnIdle

NextServer ==
    \/ WsMessage
    \/ HandlerFirstRead
    \/ HandlerSecondRead

SpecServer == InitServer /\ [][NextServer]_vars

\* The page and the server: the server is ready, the page has been mounted
InitPage ==
    /\ file \in PageFiles
    /\ granularity \in 1..MaxG
    /\ idxFile = NoFile
    /\ bpc = "built"
    /\ streamPos = Len(file)
    /\ reads = 1
    /\ totalRows = BuildWhole(file, granularity).totalRows
    /\ currentOffset = Len(file)
    /\ rowsSinceLastIndex = BuildWhole(file, granularity).rowsSinceLastIndex
    /\ offsets = BuildWhole(file, granularity).offsets
    /\ saved = FALSE
    /\ loaded = [kind |-> "notcalled"]
    /\ index = BuiltIndex
    /\ call = IdleCall
    /\ gpc = "returned"
    /\ handlers = <<>>
    /\ sent = <<>>
    /\ wsOpen = FALSE
    /\ sliceParams = NoParams
    /\ letters = NoLetters
    /\ page = PageStart
    /\ net = NetStart

NextPage ==
    \/ PageConnect
    \/ WsOnOpen
    \/ ServerReceives
    \/ HandlerFirstRead
    \/ HandlerSecondRead
    \/ WsOnMessage
    \/ RenderCommit
    \/ OnResize
    \/ OnScroll
    \/ AnimationFrame
    \/ SocketCloses
    \/ WsOnClose

SpecPage == InitPage /\ [][NextPage]_vars

\* The page left alone by the user but for resizes that change nothing: the
\* scroll position stays what it is.  Timers fire, the network delivers, the
\* server's reads resolve and React commits its renders; the connection may
\* be lost, and nothing obliges the user to resize.
NextPageLive ==
    \/ PageConnect
    \/ WsOnOpen
    \/ ServerReceives
    \/ HandlerFirstRead
    \/ HandlerSecondRead
    \/ WsOnMessage
    \/ RenderCommit
    \/ OnResize
    \/ SocketCloses
    \/ WsOnClose

\* Weak fairness of the server's steps, written out - []<>(not enabled) or
\* []<>(taken) - with the enabling condition as the state predicate it is
ReceivePending == wsOpen /\ net.c2s # <<>>
FirstReadPending == \E i \in 1..Len(handlers) : handlers[i].pc = "read1"
SecondReadPending == \E i \in 1..Len(handlers) : handlers[i].pc = "read2"

ServerFair ==
    /\ []<>(~ReceivePending) \/ []<><<ServerReceives>>_vars
    /\ []<>(~FirstReadPending) \/ []<><<HandlerFirstRead>>_vars
    /\ []<>(~SecondReadPending) \/ []<><<HandlerSecondRead>>_vars

SpecPageLive ==
    /\ InitPage
    /\ [][NextPageLive]_vars
    /\ WF_vars(PageConnect)
    /\ WF_vars(WsOnOpen)
    /\ WF_vars(WsOnMessage)
    /\ WF_vars(RenderCommit)
    /\ WF_vars(WsOnClose)
    /\ ServerFair

NextSlice ==
    \/ GetSliceCall
    \/ FirstReadResolves
    \/ SecondReadResolves

SpecSlice == InitSlice /\ [][NextSlice]_vars

----------------------------------------------------------------------------
(* What the file says, read without the code: its newlines and its records *)

NewlinePositions(data) == {p \in 0..(Len(data) - 1) : data[p + 1] = NEWLINE}

\* Position of the n-th NEWLINE (n >= 1)
NthNewline(data, n) ==
    CHOOSE p \in NewlinePositions(data) :
        Cardinality({q \in NewlinePositions(data) : q < p}) = n - 1

\* Records are the byte spans between NEWLINEs; a last span with no NEWLINE
\* after it is a record when it is not empty
NumRecords(data) ==
    Cardinality(NewlinePositions(data))
        + (IF Len(data) > 0 /\ data[Len(data)] # NEWLINE THEN 1 ELSE 0)

RecordStart(data, r) == IF r = 0 THEN 0 ELSE NthNewline(data, r) + 1
RecordEnd(data, r) ==
    IF r < Cardinality(NewlinePositions(data)) THEN NthNewline(data, r + 1) ELSE Len(data)
Record(data, r) == Slice(data, RecordStart(data, r), RecordEnd(data, r))

CeilDiv(a, b) == (a + b - 1) \div b

\* Every record is non-empty and ends with a NEWLINE
AllRecordsTerminated(data) ==
    /\ Len(data) > 0 => (data[1] # NEWLINE /\ data[Len(data)] = NEWLINE)
    /\ \A p \in 1..(Len(data) - 1) : ~(data[p] = NEWLINE /\ data[p + 1] = NEWLINE)

\* Fields [startCol, startCol + colCount) of a record split at its first FS
FieldsOf(rec) ==
    IF \E p \in 1..Len(rec) : rec[p] = SEMICOLON
    THEN LET fs == CHOOSE p \in 1..Len(rec) :
                      rec[p] = SEMICOLON /\ \A q \in 1..(p - 1) : rec[q] # SEMICOLON
         IN <<SubSeq(rec, 1, fs - 1), SubSeq(rec, fs + 1, Len(rec))>>
    ELSE <<rec, <<>>>>
Projection(rec, startCol, colCount) ==
    [j \in 1..colCount |->
        IF startCol + j <= TOTAL_COLS THEN FieldsOf(rec)[startCol + j] ELSE <<>>]

----------------------------------------------------------------------------
(* Claims about the index *)

\* C2: for every row r < totalRows of a built index, the anchor
\* offsets[floor(r/G)] exists, and advancing from it past r mod G NEWLINEs, as
\* the Slicer's skip loop does, ends on the first byte of record r.
C2_AnchorReachesRecord ==
    bpc = "built" =>
        \A r \in 0..(totalRows - 1) :
            LET k == r \div granularity
            IN /\ k + 1 \in DOMAIN offsets
               /\ offsets[k + 1]
                    + SkipRows(Slice(file, offsets[k + 1], Len(file)), r % granularity)
                  = RecordStart(file, r)

C2_Witness ==
    /\ bpc = "built"
    /\ reads >= 2
    /\ granularity = 2
    /\ totalRows >= 4
    /\ Len(offsets) >= 2

\* C5: buildIndex returns totalRows equal to the number of records of the file,
\* the last record counted also when no NEWLINE follows it.
C5_TotalRowsCountsRecords ==
    bpc = "built" => totalRows = NumRecords(file)

\* C6: the locals of buildIndex after any sequence of chunks are those of one
\* scan of the bytes delivered so far as a single chunk; the index returned is
\* that of one scan of the whole file.
C6_ChunkingIndependent ==
    bpc \in {"scan", "built"} =>
        BuilderLocals = BuildWhole(Slice(file, 0, streamPos), granularity)

\* a chunk has ended on a NEWLINE that set an anchor, with more bytes to come
C6_Witness ==
    /\ bpc = "scan"
    /\ reads >= 2
    /\ 0 < streamPos /\ streamPos < Len(file)
    /\ file[streamPos] = NEWLINE
    /\ offsets[Len(offsets)] = streamPos

\* C7: offsets is strictly increasing and every entry is below the file size.
C7_OffsetsBelowFileSize ==
    bpc = "built" =>
        /\ \A k \in 1..(Len(offsets) - 1) : offsets[k] < offsets[k + 1]
        /\ \A k \in 1..Len(offsets) : offsets[k] < Len(file)

\* C8: the offsets vector returned, and written by saveIndex after the 16-byte
\* header, has exactly ceil(totalRows / G) entries.
C8_OffsetCount ==
    bpc = "built" =>
        /\ Len(offsets) = CeilDiv(totalRows, granularity)
        /\ saved => Len(idxFile.bytes) = 16 + 8 * CeilDiv(totalRows, granularity)

\* C9: loadIndex after saveIndex of a built index returns an index with the
\* same totalRows, granularity and offsets.
C9_SaveLoadRoundTrip ==
    [][(saved /\ LoadIndex) => (loaded'.kind = "index" /\ loaded'.index = BuiltIndex)]_vars

\* an index with an anchor beyond one byte was saved and loaded back
C9_Witness ==
    /\ saved
    /\ loaded.kind = "index"
    /\ Len(loaded.index.offsets) >= 2
    /\ loaded.index.offsets[Len(loaded.index.offsets)] >= 256

\* C10: loadIndex returns null exactly when no file exists at the path, and
\* raises, returning no index, when the file is shorter than the header or
\* its length after the header is no multiple of 8.
Malformed(f) == f.exists /\ (Len(f.bytes) < 16 \/ (Len(f.bytes) - 16) % 8 # 0)

C10_LoadNullOrError ==
    [][LoadIndex => /\ (loaded'.kind = "null") <=> ~idxFile.exists
                    /\ Malformed(idxFile) => loaded'.kind = "error"]_vars

\* loadIndex raised on a file that holds the header and part of an offset
C10_Witness ==
    /\ loaded.kind = "error"
    /\ ~saved
    /\ Len(idxFile.bytes) > 16

\* C11: with a well-formed cached index at indexPath and a data file of size
\* S, getOrBuildIndex returns the cached index without building iff
\* floor(S/50) <= cached.totalRows <= ceil(S/5); otherwise it builds, writes
\* the fresh index over the file at indexPath, and returns the fresh index.
C11_CacheAcceptedIffReasonable ==
    (gpc \in {"building", "returned"} /\ loaded.kind = "index") =>
        LET S == Len(file)
            accepted == /\ S \div 50 <= loaded.index.totalRows
                        /\ loaded.index.totalRows <= CeilDiv(S, 5)
        IN /\ (bpc = "idle") <=> accepted
           /\ gpc = "returned" =>
                 IF accepted
                 THEN index = loaded.index /\ ~saved
                 ELSE /\ bpc = "built"
                      /\ index = BuiltIndex
                      /\ idxFile = FileOf(EncodeIndex(BuiltIndex))

\* a cached index with more rows than ceil(S/5) was turned down and replaced
C11_Witness ==
    /\ gpc = "returned"
    /\ loaded.kind = "index"
    /\ Len(file) >= 50
    /\ loaded.index.totalRows > CeilDiv(Len(file), 5)
    /\ saved

\* C12: when the file at indexPath exists but is malformed, getOrBuildIndex
\* does not fail: buildIndex runs and the rebuilt index is returned and saved.
C12_MalformedCacheRebuilt ==
    loaded.kind = "error" =>
        /\ gpc # "failed"
        /\ gpc = "returned" => (bpc = "built" /\ index = BuiltIndex /\ saved)

----------------------------------------------------------------------------
(* Claims about the Slicer *)

Returned == call.pc = "done"

\* The span of the file a pushed line was cut from: the last read's offset
\* plus the line's positions in the chunk
LastRead == call.issued[Len(call.issued)]

\* C1: on a file of non-empty, NEWLINE-terminated records, a request with
\* 0 <= startRow < totalRows and rowCount >= 1 (and a column window inside the
\* table) returns startRow as asked and exactly the rows startRow ..
\* startRow + min(rowCount, totalRows - startRow) - 1, each the column
\* projection of its record.
C1_SliceIsProjectionOfRecords ==
    ( /\ Returned
      /\ AllRecordsTerminated(file)
      /\ 0 <= call.args.startRow /\ call.args.startRow < index.totalRows
      /\ call.args.rowCount >= 1
      /\ call.args.startCol >= 0 /\ call.args.colCount >= 1
      /\ call.args.startCol + call.args.colCount <= TOTAL_COLS )
    => LET n == MinOf(call.args.rowCount, index.totalRows - call.args.startRow)
       IN /\ call.response.startRow = call.args.startRow
          /\ Len(call.response.cellsByRow) = n
          /\ \A i \in 1..n :
                call.response.cellsByRow[i]
                  = Projection(Record(file, call.args.startRow + i - 1),
                               call.args.startCol, call.args.colCount)

\* C3: a request with startRow >= 0, 1 <= rowCount <= 1000 and
\* startRow + rowCount <= totalRows gets a response whose rowCount is the
\* requested rowCount.
C3_RowCountAsRequested ==
    ( /\ Returned
      /\ call.args.startRow >= 0
      /\ 1 <= call.args.rowCount /\ call.args.rowCount <= 1000
      /\ call.args.startRow + call.args.rowCount <= index.totalRows )
    => call.response.rowCount = call.args.rowCount

\* C4: every row of a response is cut from all the bytes of one record: it
\* starts where a record starts and ends where that record ends.
C4_NoTruncatedRow ==
    Returned =>
        \A i \in 1..Len(call.spans) :
            \E r \in 0..Cardinality(NewlinePositions(file)) :
                /\ LastRead.offset + call.spans[i].pos = RecordStart(file, r)
                /\ LastRead.offset + call.spans[i].lineEnd = RecordEnd(file, r)

\* C13: getSlice with startRow >= totalRows returns the empty response:
\* rowCount = 0 and no rows.
C13_PastEndIsEmpty ==
    (Returned /\ call.args.startRow >= index.totalRows) =>
        /\ call.response.rowCount = 0
        /\ Len(call.response.cellsByRow) = 0

\* C18: in every response, rowCount is the number of rows, every row has
\* exactly colCount cells, and colLetters are the colCount letters of columns
\* startCol .. startCol + colCount - 1.
ColumnLetter(k) == IF k = 0 THEN "A" ELSE "B"

C18_ResponseShape ==
    Returned =>
        LET r == call.response
        IN /\ r.rowCount = Len(r.cellsByRow)
           /\ \A i \in 1..Len(r.cellsByRow) : Len(r.cellsByRow[i]) = r.colCount
           /\ Len(r.colLetters) = r.colCount
           /\ \A j \in 1..Len(r.colLetters) :
                 r.colLetters[j] = ColumnLetter(r.startCol + j - 1)

\* C20: getSlice issues at most two reads.  It issues the second only when
\* the first parse yielded fewer than rowCount rows, startRow + yielded <
\* totalRows and the file goes on after the first chunk; the second read
\* starts at the same anchor, has length min(prevLength + 50 * (rowCount -
\* yielded), fileSize - anchor), longer than the first, and the response is the
\* second parse alone.
C20_AtMostOneRetry ==
    call.pc # "idle" =>
        /\ Len(call.issued) <= 2
        /\ Len(call.issued) = 2 =>
             LET anchor == index.offsets[(call.startRow \div index.granularity) + 1]
                 first == call.issued[1]
                 second == call.issued[2]
                 yielded == Len(ParseSpans(Slice(file, first.offset, first.offset + first.length),
                                           call.rowsToSkip, call.rowCount))
             IN /\ yielded < call.rowCount
                /\ call.startRow + yielded < index.totalRows
                /\ first.offset + first.length < Len(file)
                /\ first.offset = anchor /\ second.offset = anchor
                /\ second.length = MinOf(first.length + 50 * (call.rowCount - yielded),
                                         Len(file) - anchor)
                /\ second.length > first.length
                /\ Returned =>
                     call.response.cellsByRow
                       = ParseRows(Slice(file, anchor, anchor + second.length),
                                   call.rowsToSkip, call.rowCount,
                                   call.startCol, call.colCount)

\* a call has returned after its second read
C20_Witness ==
    /\ Returned
    /\ Len(call.issued) = 2
    /\ call.response.rowCount >= 1

\* The chunk of the last read, and where the rows to yield begin in it: after
\* rowsToSkip NEWLINEs, or at its end when it holds fewer
LastChunk == Slice(file, LastRead.offset, LastRead.offset + LastRead.length)
YieldStart(chunk, skip) ==
    IF skip <= 0 THEN 0
    ELSE IF Cardinality(NewlinePositions(chunk)) < skip THEN Len(chunk)
    ELSE NthNewline(chunk, skip) + 1
\* Where the non-empty lines of the chunk begin, from start on
NonEmptyLineStarts(chunk, start) ==
    {a \in start..(Len(chunk) - 1) :
        /\ chunk[a + 1] # NEWLINE
        /\ a = start \/ chunk[a] = NEWLINE}

\* C21: the rows of a response are cut from the first non-empty lines of the
\* bytes read, in order: an empty line gives no row and does not count, so a
\* request gets rowCount rows whenever the bytes read hold that many
\* non-empty lines after the skipped ones.
C21_EmptyLinesSkipped ==
    (Returned /\ Len(call.issued) >= 1) =>
        LET chunk == LastChunk
            starts == NonEmptyLineStarts(chunk, YieldStart(chunk, call.rowsToSkip))
        IN /\ Len(call.spans) = MinOf(call.rowCount, Cardinality(starts))
           /\ \A i \in 1..Len(call.spans) :
                 /\ call.spans[i].pos \in starts
                 /\ Cardinality({a \in starts : a < call.spans[i].pos}) = i - 1
                 /\ call.spans[i].lineEnd > call.spans[i].pos
                 /\ call.spans[i].lineEnd = NextNewline(chunk, call.spans[i].pos)
           /\ Len(call.response.cellsByRow) = Len(call.spans)

\* a row was yielded from a line that comes after an empty line
C21_Witness ==
    /\ Returned
    /\ Len(call.issued) >= 1
    /\ Len(call.spans) >= 1
    /\ Len(call.spans) = call.rowCount
    /\ LET chunk == LastChunk
       IN \E p \in YieldStart(chunk, call.rowsToSkip)..(call.spans[Len(call.spans)].pos - 1) :
             /\ chunk[p + 1] = NEWLINE
             /\ p = YieldStart(chunk, call.rowsToSkip) \/ chunk[p] = NEWLINE

\* C22: once getSlice is past the empty-response return, floor(startRow / G)
\* for the clamped startRow is a position of offsets, and every read it issues
\* has offset >= 0, length >= 0 and offset + length <= fileSize.
C22_ReadsInsideFile ==
    (call.pc # "idle" /\ Len(call.issued) >= 1) =>
        /\ (call.startRow \div index.granularity) + 1 \in DOMAIN index.offsets
        /\ \A k \in 1..Len(call.issued) :
              /\ call.issued[k].offset >= 0
              /\ call.issued[k].length >= 0
              /\ call.issued[k].offset + call.issued[k].length <= Len(file)

\* a read was issued from the last anchor of an index of granularity 2, for
\* a request that began past the end of the file
C22_Witness ==
    /\ call.pc # "idle"
    /\ Len(call.issued) >= 1
    /\ index.granularity = 2
    /\ call.args.startRow >= index.totalRows
    /\ (call.startRow \div index.granularity) + 1 = Len(index.offsets)
    /\ call.issued[1].offset > 0

----------------------------------------------------------------------------
(* Claims about the server *)

\* What handler i has sent
SentBy(i) == SelectSeq(sent, LAMBDA e : e.to = i)

\* getSlice run alone, with no other invocation in progress
GetSliceAlone(sp) ==
    LET c0 == GetSliceBegin(sp.startRow, sp.rowCount, sp.startCol, sp.colCount)
        c1 == IF c0.pc = "read1" THEN GetSliceAfterFirst(c0) ELSE c0
        c2 == IF c1.pc = "read2" THEN GetSliceAfterSecond(c1) ELSE c1
    IN c2.response

\* C14: getSlice invocations interleaved at their reads each return the
\* response they return when run alone, and none changes the index the Slicer
\* holds.
C14_InterleavingIndependent ==
    /\ index = BuiltIndex
    /\ \A i \in 1..Len(handlers) :
          (handlers[i].msg.type = "slice_request" /\ handlers[i].pc = "done") =>
              /\ handlers[i].call.response = GetSliceAlone(SliceParamsOf(handlers[i].msg))
              /\ SentBy(i) = <<[to |-> i, body |-> GetSliceAlone(SliceParamsOf(handlers[i].msg))]>>

\* two invocations over overlapping rows were in progress together, and the
\* one started second returned first, after two reads
C14_Witness ==
    /\ Len(handlers) = 2
    /\ handlers[1].pc = "done" /\ handlers[2].pc = "done"
    /\ handlers[1].msg.type = "slice_request" /\ handlers[2].msg.type = "slice_request"
    /\ handlers[1].msg # handlers[2].msg
    /\ Len(sent) = 2 /\ sent[1].to = 2 /\ sent[2].to = 1
    /\ Len(handlers[2].call.issued) = 2
    /\ sent[1].body.rowCount >= 1 /\ sent[2].body.rowCount >= 1

\* C17: every message gets exactly one response once its handler has ended -
\* metadata_response with maxRows = totalRows and maxCols = 2, slice_response,
\* or error for an unknown type or an undecodable message - the handler of a
\* message other than slice_request ends at once, and the connection stays
\* open, so that requests after an error are answered like any other.
ExpectedType(m) ==
    IF m.type = "metadata_request" THEN "metadata_response"
    ELSE IF m.type = "slice_request" THEN "slice_response"
    ELSE "error"

C17_OneResponsePerMessage ==
    /\ wsOpen
    /\ \A i \in 1..Len(handlers) :
          /\ handlers[i].msg.type # "slice_request" => handlers[i].pc = "done"
          /\ Len(SentBy(i)) = (IF handlers[i].pc = "done" THEN 1 ELSE 0)
          /\ handlers[i].pc = "done" =>
                /\ SentBy(i)[1].body.type = ExpectedType(handlers[i].msg)
                /\ handlers[i].msg.type = "metadata_request" =>
                      /\ SentBy(i)[1].body.maxRows = index.totalRows
                      /\ SentBy(i)[1].body.maxCols = 2

\* an unknown message type was answered with an error, and the slice_request
\* after it with a slice_response carrying a row
C17_Witness ==
    /\ Len(handlers) = 2
    /\ handlers[1].msg.type = "bogus"
    /\ handlers[2].msg.type = "slice_request"
    /\ Len(sent) = 2
    /\ sent[1].body.type = "error"
    /\ sent[2].body.type = "slice_response"
    /\ sent[2].body.rowCount >= 1

----------------------------------------------------------------------------
(* Claims about computeSliceParams *)

\* C15: for maxRows >= 1 and defaultRowHeight > 0, whatever scrollTop is, the
\* startRow returned satisfies 0 <= startRow < maxRows; likewise startCol
\* with maxCols.
C15_StartInsideTable ==
    sliceParams.called =>
        /\ (sliceParams.in.maxRows >= 1 /\ sliceParams.in.defaultRowHeight > 0) =>
              (0 <= sliceParams.out.startRow
                 /\ sliceParams.out.startRow < sliceParams.in.maxRows)
        /\ (sliceParams.in.maxCols >= 1 /\ sliceParams.in.defaultColumnWidth > 0) =>
              (0 <= sliceParams.out.startCol
                 /\ sliceParams.out.startCol < sliceParams.in.maxCols)

\* C16: rowCount = max(0, min(ceil(screenHeight/defaultRowHeight)
\* + 2*verticalBuffer, maxRows - startRow, 1000)) for the startRow returned, so
\* 0 <= rowCount <= 1000 and startRow + rowCount <= maxRows whenever
\* startRow <= maxRows; columns likewise with cap 200 and maxCols.
C16_CountFormula ==
    sliceParams.called =>
        LET p == sliceParams.in
            o == sliceParams.out
        IN /\ o.rowCount = MaxOf(0, MinOf(MinOf(CeilDiv(p.screenHeight, p.defaultRowHeight)
                                                  + 2 * p.verticalBuffer,
                                                p.maxRows - o.startRow), 1000))
           /\ 0 <= o.rowCount /\ o.rowCount <= 1000
           /\ o.startRow <= p.maxRows => o.startRow + o.rowCount <= p.maxRows
           /\ o.colCount = MaxOf(0, MinOf(MinOf(CeilDiv(p.screenWidth, p.defaultColumnWidth)
                                                  + 2 * p.horizontalBuffer,
                                                p.maxCols - o.startCol), 200))
           /\ 0 <= o.colCount /\ o.colCount <= 200
           /\ o.startCol <= p.maxCols => o.startCol + o.colCount <= p.maxCols

----------------------------------------------------------------------------
(* Claims about columnIndexToLetters *)

\* The sequence A, B, ..., Z, AA, AB, ...: labels by length, then by alphabet.
\* The labels of length L start at index 0, 26, 702, 18278 for L = 1, 2, 3, 4.
FirstOfLength(L) == IF L = 1 THEN 0 ELSE IF L = 2 THEN 26 ELSE IF L = 3 THEN 702 ELSE 18278
LabelLength(i) == IF i < 26 THEN 1 ELSE IF i < 702 THEN 2 ELSE IF i < 18278 THEN 3 ELSE 4
RECURSIVE Pow26(_)
Pow26(k) == IF k = 0 THEN 1 ELSE 26 * Pow26(k - 1)
NthLabel(i) ==
    LET L == LabelLength(i)
        r == i - FirstOfLength(L)
    IN [k \in 1..L |-> 65 + ((r \div Pow26(L - k)) % 26)]

\* C19: columnIndexToLetters sends index i to the i-th label of A, B, ..., Z,
\* AA, AB, ... (so the label grows by one letter exactly at 26, 702 and
\* 18278), and distinct non-negative indexes get distinct labels.
C19_LettersBijection ==
    letters.called =>
        /\ letters.in[1] = 0 => letters.out = NthLabel(letters.in[2])
        /\ \A j \in LetterIndexes :
              j # letters.in => ColumnIndexToLetters(j) # letters.out

----------------------------------------------------------------------------
(* Claims about the client page *)

\* The slice_request handlers of the connection that is open
LiveSliceHandlers ==
    {i \in (net.dead + 1)..Len(handlers) : handlers[i].msg.type = "slice_request"}

\* Nothing is in flight on the open connection, either way
Quiescent ==
    /\ page.ws = "open"
    /\ net.c2s = <<>>
    /\ net.delivered = Len(sent)
    /\ \A i \in (net.dead + 1)..Len(handlers) : handlers[i].pc = "done"

NewestOf(js) == CHOOSE j \in js : \A k \in js : k <= j

\* C23: when the client has sent slice_request R1 and later R2 on one
\* connection and both responses have arrived, the slice it holds
\* (latestSliceRef) is the response to R2, whatever the interleaving of the
\* server's handlers.
C23_NewestResponseHeld ==
    (Quiescent /\ Cardinality(LiveSliceHandlers) >= 2) =>
        page.latestSlice = handlers[NewestOf(LiveSliceHandlers)].call.response

\* C24: with the scroll position unchanged, if the connection is eventually
\* open and stays open, the client eventually holds a slice_response: a
\* request lost to a disconnect, or not sent because the socket was not OPEN,
\* is sent again after reconnecting.
C24_WindowEventuallyHeld ==
    <>[](page.ws = "open") => <>(page.latestSlice.type = "slice_response")

====
